---- MODULE Spec2Model ----
(***************************************************************************)
(* Model of the task tree of the todo application (components/todo-app.tsx *)
(* with the handlers of task-item.tsx and the two dialogs that call it).   *)
(*                                                                         *)
(* The React component TodoApp holds the tree in the state `tasks`.  The   *)
(* three mutating functions addTask, updateTask and deleteTask do not      *)
(* change `tasks` themselves: each hands a functional updater to setTasks, *)
(* which React queues and applies, in order, at the next render.  Two      *)
(* effects run after a render: the load effect (once, on mount) and the    *)
(* save effect (on mount and after every render that changed `tasks`).     *)
(***************************************************************************)
EXTENDS Integers, Sequences, FiniteSets, TLC

(***************************************************************************)
(* Bounds of the model.                                                    *)
(***************************************************************************)
\* Date.now() ranges over FirstClock..MaxClock.
MaxClock == 11
\* addTask is not invoked once the tree it would produce holds MaxTasks tasks
\* (MaxBatchTasks in SpecBatch).
MaxTasks == 3
MaxBatchTasks == 2
\* at most MaxPending updaters wait for the next render.
MaxPending == 2
\* the tree of SpecQuery holds at most MaxQueryTasks top-level tasks.
MaxQueryTasks == 3
\* addTask is not invoked in SpecView once the tree would hold MaxViewTasks tasks.
MaxViewTasks == 2

\* first reading of Date.now(); chosen so that ids of one and of two digits occur
FirstClock == 9

(***************************************************************************)
(* Optional values: a JavaScript `undefined` is None, a value v is Some(v).*)
(***************************************************************************)
None == <<>>
Some(v) == <<v>>

(***************************************************************************)
(* Number.prototype.toString (decimal): the id of a task is the text of    *)
(* the clock reading, a sequence of digit characters.                      *)
(***************************************************************************)
Digit(d) == <<"0", "1", "2", "3", "4", "5", "6", "7", "8", "9">>[d + 1]

RECURSIVE toString(_)
toString(n) == IF n < 10 THEN <<Digit(n)>> ELSE toString(n \div 10) \o <<Digit(n % 10)>>

(***************************************************************************)
(* Strings that the program takes apart (titles, search texts) are         *)
(* sequences of characters; strings it only compares (tags, colors, keys)  *)
(* are TLA+ strings.                                                       *)
(***************************************************************************)
BuyMilk == <<"B", "u", "y", " ", "m", "i", "l", "k">>
TwoPercentMilk == <<"2", "%", " ", "m", "i", "l", "k">>

\* String.prototype.trim: the white space at both ends is removed
WhiteSpace == {" ", "\t", "\n"}

\* a trim of the start only
RECURSIVE trimStart(_)
trimStart(s) == IF s # <<>> /\ Head(s) \in WhiteSpace THEN trimStart(Tail(s)) ELSE s

RECURSIVE trimEnd(_)
trimEnd(s) ==
    IF s # <<>> /\ s[Len(s)] \in WhiteSpace THEN trimEnd(SubSeq(s, 1, Len(s) - 1)) ELSE s

trim(s) == trimEnd(trimStart(s))

(***************************************************************************)
(* Inputs of the dialogs: what AddTaskDialog / EditTaskDialog hand to      *)
(* onAddTask / onUpdate (title, tags, reminder, color).  A reminder is a   *)
(* Date, modelled by its time value in milliseconds.                       *)
(***************************************************************************)
TaskDatas ==
    { [title |-> BuyMilk, tags |-> <<"errand">>, reminder |-> None, color |-> "bg-card"],
      [title |-> TwoPercentMilk, tags |-> <<>>, reminder |-> Some(90061), color |-> "bg-blue-50"] }

\* the inputs of the calls of SpecBatch
BatchDatas ==
    { [title |-> TwoPercentMilk, tags |-> <<>>, reminder |-> Some(90061), color |-> "bg-blue-50"] }

(***************************************************************************)
(* The updates the callers of updateTask send: handleToggleComplete        *)
(* (task-item.tsx 36-38) sends {completed}, the edit dialog's handleSubmit *)
(* sends {title, tags, reminder, color}, and handleColorChange             *)
(* (task-item.tsx 40-42) sends {color}.                                    *)
(***************************************************************************)
ToggleUpdates == {[completed |-> c] : c \in BOOLEAN}
EditUpdates == TaskDatas
ColorUpdates == {[color |-> "bg-card"]}

VARIABLES
    tasks,      \* the React state `tasks`: the tree of the last render
    pending,    \* updaters handed to setTasks and not yet applied
    effects,    \* effects scheduled by the last commit, in run order
    storage,    \* localStorage["todo-tasks"]: None or Some(document)
    now,        \* the last reading of Date.now()
    prev,       \* `tasks` before the render that has just happened
    applied,    \* the updaters that render applied
                \* (prev and applied are empty except right after a render)
    fault,      \* "none", or where an exception was thrown and not caught
                \* ("load effect", "render"): React has unmounted the component
    filters,    \* the React state `filters` (FilterState)
    submitted   \* what the last submit of a dialog did, as its parent saw it
                \* (None when no dialog was submitted since the last render)

vars == <<tasks, pending, effects, storage, now, prev, applied, fault, filters, submitted>>

(***************************************************************************)
(* addTask (todo-app.tsx 65-83)                                            *)
(***************************************************************************)
\* newTask with line 71 (parentId) left out
newTaskWithoutParentId(taskData, parentId, clock) ==
    [ title     |-> taskData.title,
      tags      |-> taskData.tags,
      reminder  |-> taskData.reminder,
      color     |-> taskData.color,
      id        |-> toString(clock),
      completed |-> FALSE,
      subtasks  |-> <<>>,
      parentId  |-> None ]

\* the object literal of lines 66-72
newTask(taskData, parentId, clock) ==
    [ title     |-> taskData.title,
      tags      |-> taskData.tags,
      reminder  |-> taskData.reminder,
      color     |-> taskData.color,
      id        |-> toString(clock),
      completed |-> FALSE,
      subtasks  |-> <<>>,
      parentId  |-> parentId ]

\* addTaskUpdater that puts the task at the top level when no top-level task
\* has the id parentId
addTaskUpdaterFallback(before, task, parentId) ==
    IF parentId # None /\ parentId[1] # <<>>
          /\ \E i \in 1..Len(before) : before[i].id = parentId[1]
    THEN [i \in 1..Len(before) |->
            IF before[i].id = parentId[1]
            THEN [before[i] EXCEPT !.subtasks = Append(@, task)]
            ELSE before[i]]
    ELSE Append(before, task)

\* addTaskUpdater that looks for parentId among the subtasks as well
addTaskUpdaterDeep(before, task, parentId) ==
    IF parentId # None /\ parentId[1] # <<>>
    THEN [i \in 1..Len(before) |->
            IF before[i].id = parentId[1]
            THEN [before[i] EXCEPT !.subtasks = Append(@, task)]
            ELSE [before[i] EXCEPT !.subtasks =
                    [j \in 1..Len(@) |->
                        IF @[j].id = parentId[1]
                        THEN [@[j] EXCEPT !.subtasks = Append(@, task)]
                        ELSE @[j]]]]
    ELSE Append(before, task)

\* addTaskUpdater written with the `tasks` of the handler's render instead of
\* the updater's argument: setTasks([...tasks, newTask])
addTaskUpdaterStale(before, task, parentId) ==
    IF parentId # None /\ parentId[1] # <<>>
    THEN [i \in 1..Len(tasks) |->
            IF tasks[i].id = parentId[1]
            THEN [tasks[i] EXCEPT !.subtasks = Append(@, task)]
            ELSE tasks[i]]
    ELSE Append(tasks, task)

\* the updater of lines 74-82; `if (parentId)` is true of any non-empty string
addTaskUpdater(before, task, parentId) ==
    IF parentId # None /\ parentId[1] # <<>>
    THEN [i \in 1..Len(before) |->
            IF before[i].id = parentId[1]
            THEN [before[i] EXCEPT !.subtasks = Append(@, task)]
            ELSE before[i]]
    ELSE Append(before, task)

(***************************************************************************)
(* updateTask (todo-app.tsx 85-98)                                         *)
(***************************************************************************)
\* { ...task, ...updates }
Merge(task, updates) ==
    [k \in DOMAIN task |-> IF k \in DOMAIN updates THEN updates[k] ELSE task[k]]

\* updateTaskRecursive without the descent into the subtasks (lines 91-93)
updateTaskTopLevelOnly(ts, taskId, updates) ==
    [i \in 1..Len(ts) |-> IF ts[i].id = taskId THEN Merge(ts[i], updates) ELSE ts[i]]

RECURSIVE updateTaskRecursive(_, _, _)
updateTaskRecursive(ts, taskId, updates) ==
    [i \in 1..Len(ts) |->
        IF ts[i].id = taskId
        THEN Merge(ts[i], updates)
        ELSE IF Len(ts[i].subtasks) > 0
             THEN [ts[i] EXCEPT !.subtasks = updateTaskRecursive(@, taskId, updates)]
             ELSE ts[i]]

(***************************************************************************)
(* deleteTask (todo-app.tsx 100-111)                                       *)
(***************************************************************************)
\* deleteTaskRecursive without the descent into the subtasks (lines 104-106)
deleteTaskTopLevelOnly(ts, taskId) == SelectSeq(ts, LAMBDA t : t.id # taskId)

\* a deletion by tasks.splice(tasks.findIndex(...), 1): when no top-level
\* task has the id, findIndex gives -1 and splice removes the last task
deleteTaskSplice(ts, taskId) ==
    IF \E i \in 1..Len(ts) : ts[i].id = taskId
    THEN SelectSeq(ts, LAMBDA t : t.id # taskId)
    ELSE SubSeq(ts, 1, Len(ts) - 1)

\* a deletion that puts the subtasks of the deleted task in its place
RECURSIVE deleteTaskHoist(_, _)
deleteTaskHoist(ts, taskId) ==
    IF Len(ts) = 0 THEN <<>>
    ELSE (IF Head(ts).id = taskId
          THEN Head(ts).subtasks
          ELSE <<[Head(ts) EXCEPT !.subtasks = SelectSeq(@, LAMBDA t : t.id # taskId)]>>)
         \o deleteTaskHoist(Tail(ts), taskId)

RECURSIVE deleteTaskRecursive(_, _)
deleteTaskRecursive(ts, taskId) ==
    LET kept == SelectSeq(ts, LAMBDA t : t.id # taskId)
    IN  [i \in 1..Len(kept) |->
            IF Len(kept[i].subtasks) > 0
            THEN [kept[i] EXCEPT !.subtasks = deleteTaskRecursive(@, taskId)]
            ELSE kept[i]]

(***************************************************************************)
(* Serialization: JSON.stringify(tasks) (line 62) and the load effect's    *)
(* JSON.parse and reminder conversion (lines 45-55).                       *)
(*                                                                         *)
(* A JSON object is a function from its keys to values; a key whose value  *)
(* is undefined is left out by JSON.stringify.  A Date is written by       *)
(* Date.prototype.toJSON as its ISO-8601 text in UTC, modelled by its      *)
(* three parts <<date and HH:mm as minutes since the epoch, ss, sss>>; the  *)
(* JSON text of an Invalid Date is null, which loads like a missing key    *)
(* and is modelled as one.                                                 *)
(***************************************************************************)
toISOString(t) == <<t \div 60000, (t \div 1000) % 60, t % 1000>>

\* the time value of an Invalid Date (the time values of the model's valid
\* Dates are natural numbers)
NaN == -1

\* a parse that keeps the date and HH:mm only
DateParseMinutes(s) == s[1] * 60000

\* new Date(text): a text that is no date-time text (here: one whose seconds
\* or milliseconds are out of range) gives an Invalid Date
DateParse(s) ==
    IF s[2] \in 0..59 /\ s[3] \in 0..999
    THEN s[1] * 60000 + s[2] * 1000 + s[3]
    ELSE NaN

NoKeys == [k \in {} |-> None]

RECURSIVE Stringify(_)
Stringify(ts) ==
    [i \in 1..Len(ts) |->
        [ id        |-> ts[i].id,
          title     |-> ts[i].title,
          completed |-> ts[i].completed,
          color     |-> ts[i].color,
          tags      |-> ts[i].tags,
          subtasks  |-> Stringify(ts[i].subtasks) ]
        @@ (IF ts[i].reminder # None /\ ts[i].reminder[1] # NaN
            THEN [reminder |-> toISOString(ts[i].reminder[1])] ELSE NoKeys)
        @@ (IF ts[i].parentId # None
            THEN [parentId |-> ts[i].parentId[1]] ELSE NoKeys)]

\* task.reminder ? new Date(task.reminder) : undefined
ReviveReminder(o) ==
    IF "reminder" \in DOMAIN o THEN Some(DateParse(o.reminder)) ELSE None

\* { ...subtask, reminder: ... } (lines 51-54): the subtask's own subtasks are
\* kept as parsed, and a subtask parsed without the key has none
ReviveSubtask(o) ==
    [ id        |-> o.id,
      title     |-> o.title,
      completed |-> o.completed,
      color     |-> o.color,
      tags      |-> o.tags,
      reminder  |-> ReviveReminder(o),
      parentId  |-> IF "parentId" \in DOMAIN o THEN Some(o.parentId) ELSE None ]
    @@ (IF "subtasks" \in DOMAIN o THEN [subtasks |-> o.subtasks] ELSE NoKeys)

\* parsedTasks.map(...) (lines 47-55)
tasksWithDates(doc) ==
    [i \in 1..Len(doc) |->
        [ id        |-> doc[i].id,
          title     |-> doc[i].title,
          completed |-> doc[i].completed,
          color     |-> doc[i].color,
          tags      |-> doc[i].tags,
          reminder  |-> ReviveReminder(doc[i]),
          subtasks  |-> IF "subtasks" \in DOMAIN doc[i]
                        THEN [j \in 1..Len(doc[i].subtasks) |-> ReviveSubtask(doc[i].subtasks[j])]
                        ELSE <<>>,
          parentId  |-> IF "parentId" \in DOMAIN doc[i] THEN Some(doc[i].parentId) ELSE None ]]

(***************************************************************************)
(* localStorage holds a text.  A text that is the JSON text of an array of *)
(* objects is modelled by that array.  Two texts that are not: NotJSON is  *)
(* a text that is no JSON text (a document cut off in the middle), for     *)
(* which JSON.parse (line 45) throws a SyntaxError, and NotArray is the    *)
(* JSON text of a value that is no array ({"tasks": []}), for which        *)
(* parsedTasks.map (line 47) throws a TypeError.                           *)
(***************************************************************************)
NotJSON == <<[SyntaxError |-> TRUE]>>
NotArray == <<[TypeError |-> TRUE]>>

\* the load effect throws at line 45 or 47
LoadThrows(text) == text = NotJSON \/ text = NotArray

\* getAllTags() (lines 113-123, called in every render at line 182) throws a
\* TypeError: extractTags(task.subtasks) reaches a task without subtasks, and
\* undefined has no forEach
RECURSIVE extractTagsThrows(_)
extractTagsThrows(ts) ==
    \E i \in 1..Len(ts) :
        IF "subtasks" \in DOMAIN ts[i] THEN extractTagsThrows(ts[i].subtasks) ELSE TRUE

(***************************************************************************)
(* The queue of setTasks: an entry is the updater a handler passed.        *)
(***************************************************************************)
ApplyOp(before, u) ==
    CASE u.op = "add"    -> addTaskUpdater(before, u.task, u.parentId)
      [] u.op = "update" -> updateTaskRecursive(before, u.taskId, u.updates)
      [] u.op = "delete" -> deleteTaskRecursive(before, u.taskId)
      [] u.op = "set"    -> u.value

RECURSIVE ApplyAll(_, _)
ApplyAll(before, us) ==
    IF us = <<>> THEN before ELSE ApplyAll(ApplyOp(before, Head(us)), Tail(us))

\* all tasks of a tree, depth first
RECURSIVE Flatten(_)
Flatten(ts) ==
    IF ts = <<>> THEN <<>>
    ELSE <<Head(ts)>> \o Flatten(Head(ts).subtasks) \o Flatten(Tail(ts))

\* the mount effects have started: the load effect is no longer scheduled
Mounted == fault = "none" /\ \A i \in DOMAIN effects : effects[i] # "load"

\* a handler calls setTasks(u)
Enqueue(u) ==
    /\ Mounted
    /\ Len(pending) < MaxPending
    /\ pending' = Append(pending, u)
    /\ prev' = <<>>
    /\ applied' = <<>>
    /\ UNCHANGED <<tasks, effects, storage, fault, filters>>

\* useState<FilterState>({...}), lines 33-38, and clearFilters, lines 184-191
DefaultFilters == [search |-> <<>>, tag |-> "all", status |-> "all", sortBy |-> "created"]

(***************************************************************************)
(* Actions                                                                 *)
(***************************************************************************)
Init ==
    /\ tasks = <<>>
    /\ pending = <<>>
    /\ effects = <<"load", "save">>
    /\ storage = None
    /\ now = FirstClock
    /\ prev = <<>>
    /\ applied = <<>>
    /\ fault = "none"
    /\ filters = DefaultFilters
    /\ submitted = None

\* the ids of the rendered tasks: those a handler of a TaskItem passes
\* (task-item.tsx 37, 41, 126, 163)
RenderedIds == {Flatten(tasks)[i].id : i \in 1..Len(Flatten(tasks))}

\* an id no task has: the text of a clock value that is never read
AbsentId == toString(FirstClock - 1)

\* the ids a caller passes in Spec
CallerIds == RenderedIds \cup {AbsentId}

\* addTask(taskData, parentId), lines 65-83; the caller passes no parentId (the
\* top-level dialog) or an id; Date.now() reads the clock, which has not gone
\* back since the last reading
AddTask(datas, ids, maxTasks) ==
    \E taskData \in datas, parentId \in {None} \cup {Some(i) : i \in ids}, clock \in now..MaxClock :
        /\ Len(Flatten(ApplyAll(tasks, pending))) < maxTasks
        /\ now' = clock
        /\ submitted' = None
        /\ Enqueue([op |-> "add", task |-> newTask(taskData, parentId, clock), parentId |-> parentId])

\* updateTask(taskId, updates), lines 85-98
UpdateTask(updateSet, ids) ==
    \E taskId \in ids, updates \in updateSet :
        /\ Enqueue([op |-> "update", taskId |-> taskId, updates |-> updates])
        /\ submitted' = None
        /\ UNCHANGED now

\* deleteTask(taskId), lines 100-111
DeleteTask(ids) ==
    \E taskId \in ids :
        /\ Enqueue([op |-> "delete", taskId |-> taskId])
        /\ submitted' = None
        /\ UNCHANGED now

\* the load effect (lines 42-58).  When it throws, nothing catches: React
\* unmounts the component; whether the effects scheduled after it in the same
\* commit still run depends on the version of React
LoadEffect ==
    /\ effects # <<>> /\ Head(effects) = "load"
    /\ IF storage # None /\ LoadThrows(storage[1])
       THEN /\ fault' = "load effect"
            /\ effects' \in {<<>>, Tail(effects)}
            /\ UNCHANGED pending
       ELSE /\ effects' = Tail(effects)
            /\ pending' = IF storage # None
                          THEN Append(pending, [op |-> "set", value |-> tasksWithDates(storage[1])])
                          ELSE pending
            /\ UNCHANGED fault
    /\ UNCHANGED <<tasks, storage, now, prev, applied, filters, submitted>>

\* the save effect (lines 61-63)
SaveEffect ==
    /\ effects # <<>> /\ Head(effects) = "save"
    /\ effects' = Tail(effects)
    /\ storage' = Some(Stringify(tasks))
    /\ prev' = <<>>
    /\ applied' = <<>>
    /\ UNCHANGED <<tasks, pending, now, fault, filters, submitted>>

\* React renders: the queued updaters are applied in order, and the save
\* effect is scheduled because `tasks` is a new array.  When the render throws
\* (getAllTags, line 182), nothing catches: React unmounts the component
Render ==
    /\ effects = <<>>
    /\ pending # <<>>
    /\ fault = "none"
    /\ IF extractTagsThrows(ApplyAll(tasks, pending))
       THEN /\ fault' = "render"
            /\ tasks' = <<>>
            /\ effects' = <<>>
            /\ prev' = <<>>
            /\ applied' = <<>>
       ELSE /\ tasks' = ApplyAll(tasks, pending)
            /\ effects' = <<"save">>
            /\ prev' = tasks
            /\ applied' = pending
            /\ UNCHANGED fault
    /\ pending' = <<>>
    /\ submitted' = None
    /\ UNCHANGED <<storage, now, filters>>

\* the page is loaded again: the component is mounted anew
Reload ==
    /\ effects = <<>>
    /\ pending = <<>>
    /\ storage # None
    /\ tasks # <<>>
    /\ tasks' = <<>>
    /\ effects' = <<"load", "save">>
    /\ prev' = <<>>
    /\ applied' = <<>>
    /\ filters' = DefaultFilters
    /\ submitted' = None
    /\ UNCHANGED <<pending, storage, now, fault>>

\* nothing waits: every updater is applied and every effect has run
Quiet == pending = <<>> /\ effects = <<>>

(***************************************************************************)
(* Spec: every call of a mutating function happens in a discrete event of  *)
(* its own (a click, a submit), and React renders and flushes the effects  *)
(* before the next such event is handled.  The ids passed are those of the *)
(* rendered tasks, top-level or nested, and an id that no task has.        *)
(***************************************************************************)
Next ==
    \/ Quiet /\ AddTask(TaskDatas, CallerIds, MaxTasks)
    \/ Quiet /\ UpdateTask(ToggleUpdates \cup EditUpdates, CallerIds)
    \/ Quiet /\ DeleteTask(CallerIds)
    \/ LoadEffect
    \/ SaveEffect
    \/ Render
    \/ Reload

Spec == Init /\ [][Next]_vars

(***************************************************************************)
(* SpecBatch: the mutating functions called several times before React     *)
(* renders (up to MaxPending updaters wait in the queue): addTask from the *)
(* top-level dialog, color changes and deletions of rendered tasks.  An id *)
(* passed may be stale: its task may be deleted by an updater ahead of it. *)
(***************************************************************************)
BatchNext ==
    \/ AddTask(BatchDatas, {}, MaxBatchTasks)
    \/ UpdateTask(ColorUpdates, RenderedIds)
    \/ DeleteTask(RenderedIds)
    \/ LoadEffect
    \/ SaveEffect
    \/ Render
    \/ Reload

SpecBatch == Init /\ [][BatchNext]_vars

(***************************************************************************)
(* The view (todo-app.tsx 113-182): getAllTags and filteredTasks, computed *)
(* in every render from `tasks`, `filters` and, for the status filter, the *)
(* clock (new Date()).                                                     *)
(***************************************************************************)
\* the elements of an array
Range(seq) == {seq[i] : i \in 1..Len(seq)}

\* an array without the repetitions of its elements: Array.from(new Set(seq))
RECURSIVE Distinct(_)
Distinct(seq) ==
    IF seq = <<>> THEN <<>>
    ELSE LET front == Distinct(SubSeq(seq, 1, Len(seq) - 1))
         IN  IF seq[Len(seq)] \in Range(front) THEN front ELSE Append(front, seq[Len(seq)])

\* the tags extractTags adds, in the order it adds them (lines 115-120)
RECURSIVE extractTags(_)
extractTags(ts) ==
    IF ts = <<>> THEN <<>>
    ELSE Head(ts).tags \o extractTags(Head(ts).subtasks) \o extractTags(Tail(ts))

\* getAllTags(), lines 113-123
getAllTags(ts) == Distinct(extractTags(ts))

\* String.prototype.toLowerCase, for the letters A-Z
UpperCase == <<"A", "B", "C", "D", "E", "F", "G", "H", "I", "J", "K", "L", "M",
               "N", "O", "P", "Q", "R", "S", "T", "U", "V", "W", "X", "Y", "Z">>
LowerCase == <<"a", "b", "c", "d", "e", "f", "g", "h", "i", "j", "k", "l", "m",
               "n", "o", "p", "q", "r", "s", "t", "u", "v", "w", "x", "y", "z">>

toLowerCase(s) ==
    [i \in 1..Len(s) |->
        IF s[i] \in Range(UpperCase)
        THEN LowerCase[CHOOSE k \in 1..Len(UpperCase) : UpperCase[k] = s[i]]
        ELSE s[i]]

\* String.prototype.includes
includes(s, part) ==
    \E k \in 0..(Len(s) - Len(part)) : SubSeq(s, k + 1, k + Len(part)) = part

\* Number.parseInt(id): the number the leading digits of the text denote, NaN
\* when it starts with no digit
IsDigit(c) == c \in {Digit(d) : d \in 0..9}
DigitValue(c) == CHOOSE d \in 0..9 : Digit(d) = c

RECURSIVE Digits(_)
Digits(s) == IF s # <<>> /\ IsDigit(Head(s)) THEN <<Head(s)>> \o Digits(Tail(s)) ELSE <<>>

RECURSIVE ValueOf(_)
ValueOf(ds) ==
    IF ds = <<>> THEN 0 ELSE ValueOf(SubSeq(ds, 1, Len(ds) - 1)) * 10 + DigitValue(ds[Len(ds)])

parseInt(s) == IF Digits(trimStart(s)) = <<>> THEN NaN ELSE ValueOf(Digits(trimStart(s)))

\* a - b as the result of a comparator: Array.prototype.sort takes a NaN (a or
\* b is NaN) for 0
Minus(a, b) == IF a = NaN \/ b = NaN THEN 0 ELSE a - b

\* isOverdue without `&& !task.completed`
isOverdueIgnoringCompleted(task, clock) ==
    task.reminder # None /\ task.reminder[1] # NaN /\ task.reminder[1] < clock

\* task.reminder && task.reminder < new Date() && !task.completed (lines 147,
\* 149; task-item.tsx 44): a Date is truthy, an Invalid Date is less than none
isOverdue(task, clock) ==
    task.reminder # None /\ task.reminder[1] # NaN /\ task.reminder[1] < clock
        /\ ~task.completed

\* the callback of tasks.filter, lines 126-166
Keeps(task, f, clock) ==
    LET search == toLowerCase(f.search)
        subtasks == Range(task.subtasks)
        hasOverdueSubtasks == \E subtask \in subtasks : isOverdue(subtask, clock)
    IN  IF /\ f.search # <<>>
           /\ ~includes(toLowerCase(task.title), search)
           /\ ~\E subtask \in subtasks : includes(toLowerCase(subtask.title), search)
        THEN FALSE
        ELSE IF /\ f.tag # "all"
                /\ f.tag \notin Range(task.tags)
                /\ ~\E subtask \in subtasks : f.tag \in Range(subtask.tags)
        THEN FALSE
        ELSE IF f.status = "completed"
        THEN ~(~task.completed /\ ~\E subtask \in subtasks : subtask.completed)
        ELSE IF f.status = "pending"
        THEN ~(task.completed \/ isOverdue(task, clock) \/ hasOverdueSubtasks)
        ELSE IF f.status = "overdue"
        THEN ~(~isOverdue(task, clock) /\ ~hasOverdueSubtasks)
        ELSE TRUE

\* a comparator that puts the tasks without a reminder first
compareNoReminderFirst(a, b, sortBy) ==
    IF sortBy = "reminder"
    THEN IF a.reminder = None /\ b.reminder = None THEN 0
         ELSE IF a.reminder = None THEN -1
         ELSE IF b.reminder = None THEN 1
         ELSE Minus(a.reminder[1], b.reminder[1])
    ELSE Minus(parseInt(a.id), parseInt(b.id))

\* the comparator of lines 167-180, for the sort keys "reminder" and
\* "created" (localeCompare, of the key "title", is not modelled)
compare(a, b, sortBy) ==
    IF sortBy = "reminder"
    THEN IF a.reminder = None /\ b.reminder = None THEN 0
         ELSE IF a.reminder = None THEN 1
         ELSE IF b.reminder = None THEN -1
         ELSE Minus(a.reminder[1], b.reminder[1])
    ELSE Minus(parseInt(a.id), parseInt(b.id))

\* Array.prototype.sort is stable: an element goes behind the last one that
\* is not greater than it
RECURSIVE insert(_, _, _)
insert(sorted, x, sortBy) ==
    IF sorted # <<>> /\ compare(sorted[Len(sorted)], x, sortBy) > 0
    THEN Append(insert(SubSeq(sorted, 1, Len(sorted) - 1), x, sortBy), sorted[Len(sorted)])
    ELSE Append(sorted, x)

RECURSIVE sort(_, _)
sort(ts, sortBy) ==
    IF ts = <<>> THEN <<>>
    ELSE insert(sort(SubSeq(ts, 1, Len(ts) - 1), sortBy), ts[Len(ts)], sortBy)

\* tasks.filter(...).sort(...), lines 125-180, with `clock` the value of new Date()
FilteredTasks(ts, f, clock) == sort(SelectSeq(ts, LAMBDA task : Keeps(task, f, clock)), f.sortBy)

(***************************************************************************)
(* The dialogs.  A form is the state of a dialog when it is submitted: the *)
(* title as typed, the tags, the reminder (the text of a datetime-local    *)
(* input, modelled by the minutes it counts since the epoch; empty: None)  *)
(* and the color.                                                          *)
(***************************************************************************)
Forms ==
    { [title |-> <<>>, tags |-> <<>>, reminder |-> None, color |-> "bg-card"],
      [title |-> <<" ", "\t">>, tags |-> <<"errand">>, reminder |-> Some(1), color |-> "bg-card"],
      [title |-> <<" ">> \o BuyMilk \o <<" ">>, tags |-> <<"errand">>, reminder |-> None,
       color |-> "bg-card"],
      [title |-> TwoPercentMilk, tags |-> <<>>, reminder |-> Some(1), color |-> "bg-blue-50"] }

\* reminder ? new Date(reminder) : undefined
DateOfInput(reminder) == IF reminder # None THEN Some(reminder[1] * 60000) ELSE None

\* the object both dialogs build, with the title as given
\* (add-task-dialog.tsx 32-37, EditTaskDialog.handleSubmit 47-52)
FormData(form, title) ==
    [title |-> title, tags |-> form.tags, reminder |-> DateOfInput(form.reminder),
     color |-> form.color]

\* `if (!title.trim()) return`: the empty text is falsy
Rejects(title) == trim(title) = <<>>

\* what a submit of the title typed does, as seen from outside the dialog:
\* whether onAddTask/onUpdate and onOpenChange(false) were called, and what
\* handleSubmit returned: undefined, from the bare `return` of the rejection
\* and from the end of the function alike
Submitted(form, called) ==
    Some([title |-> form.title, invoked |-> called, closed |-> called, returned |-> None])

\* AddTaskDialog.handleSubmit (add-task-dialog.tsx 28-46); onAddTask is
\* addTask (todo-app.tsx 388) or addTask with the id of the TaskItem
\* (task-item.tsx 163)
SubmitAdd(forms, ids, maxTasks) ==
    \E form \in forms, parentId \in {None} \cup {Some(i) : i \in ids} :
        IF Rejects(form.title)
        THEN /\ submitted' = Submitted(form, FALSE)
             /\ UNCHANGED <<tasks, pending, effects, storage, now, prev, applied, fault, filters>>
        ELSE \E clock \in now..MaxClock :
               /\ Len(Flatten(ApplyAll(tasks, pending))) < maxTasks
               /\ now' = clock
               /\ submitted' = Submitted(form, TRUE)
               /\ Enqueue([op |-> "add", parentId |-> parentId,
                           task |-> newTask(FormData(form, trim(form.title)), parentId, clock)])

\* EditTaskDialog.handleSubmit (lines 43-55); onUpdate is updateTask
SubmitEdit(forms, ids) ==
    \E form \in forms, taskId \in ids :
        IF Rejects(form.title)
        THEN /\ submitted' = Submitted(form, FALSE)
             /\ UNCHANGED <<tasks, pending, effects, storage, now, prev, applied, fault, filters>>
        ELSE /\ submitted' = Submitted(form, TRUE)
             /\ Enqueue([op |-> "update", taskId |-> taskId,
                         updates |-> FormData(form, trim(form.title))])
             /\ UNCHANGED now

(***************************************************************************)
(* SpecStored: the component is mounted with a text in localStorage that   *)
(* an earlier session, another writer or a failed write has left there:    *)
(* the document of a tree, that document with a reminder text that is no   *)
(* date-time text, with the subtasks key of a top-level or of a nested     *)
(* task missing, or a text that is no document at all.  After the mount    *)
(* the user completes and deletes rendered tasks.                          *)
(***************************************************************************)
\* the tree of an earlier session: two top-level tasks, the first with a
\* completed subtask
StoredTree ==
    << [newTask([title |-> BuyMilk, tags |-> <<"errand">>, reminder |-> Some(90061),
                 color |-> "bg-card"], None, FirstClock - 4)
            EXCEPT !.subtasks =
                <<[newTask([title |-> TwoPercentMilk, tags |-> <<>>, reminder |-> Some(90061),
                            color |-> "bg-blue-50"],
                           Some(toString(FirstClock - 4)), FirstClock - 3)
                      EXCEPT !.completed = TRUE]>>],
       newTask([title |-> BuyMilk, tags |-> <<>>, reminder |-> None, color |-> "bg-card"],
               None, FirstClock - 2) >>

\* an object without one of its keys
Without(o, key) == [k \in DOMAIN o \ {key} |-> o[k]]

\* a text that is no date-time text: its seconds are 61
NoDateText == <<1, 61, 0>>

StoredTexts ==
    { Stringify(StoredTree),
      [Stringify(StoredTree) EXCEPT ![1].reminder = NoDateText],
      [Stringify(StoredTree) EXCEPT ![1].subtasks[1].reminder = NoDateText],
      [Stringify(StoredTree) EXCEPT ![2] = Without(@, "subtasks")],
      [Stringify(StoredTree) EXCEPT ![1].subtasks[1] = Without(@, "subtasks")],
      NotJSON,
      NotArray }

StoredInit ==
    /\ tasks = <<>>
    /\ pending = <<>>
    /\ effects = <<"load", "save">>
    /\ storage \in {Some(text) : text \in StoredTexts}
    /\ now = FirstClock
    /\ prev = <<>>
    /\ applied = <<>>
    /\ fault = "none"
    /\ filters = DefaultFilters
    /\ submitted = None

StoredNext ==
    \/ Quiet /\ UpdateTask(ToggleUpdates, RenderedIds)
    \/ Quiet /\ DeleteTask(RenderedIds)
    \/ LoadEffect
    \/ SaveEffect
    \/ Render
    \/ Reload

SpecStored == StoredInit /\ [][StoredNext]_vars

(***************************************************************************)
(* What a render shows (state functions of the component).                 *)
(***************************************************************************)
\* const filteredTasks (line 125); `now` is the clock as the render read it
filteredTasks == FilteredTasks(tasks, filters, now)

\* const allTags = getAllTags() (line 182)
allTags == getAllTags(tasks)

\* the ids of the TaskItems shown: the filtered tasks and their subtasks
\* (todo-app.tsx 374-382, task-item.tsx 145-158)
VisibleIds == {Flatten(filteredTasks)[i].id : i \in 1..Len(Flatten(filteredTasks))}

\* hasActiveFilters (lines 193-194)
hasActiveFilters ==
    filters.search # <<>> \/ filters.tag # "all" \/ filters.status # "all"
        \/ filters.sortBy # "created"

\* setFilters(f) and the render it causes: `tasks` is the same array, so no
\* effect runs; the status filter, when active, reads the clock
SetFilters(f) ==
    /\ Quiet /\ Mounted
    /\ filters' = f
    /\ now' \in IF f.status # "all" THEN now..MaxClock ELSE {now}
    /\ UNCHANGED <<tasks, pending, effects, storage, prev, applied, fault, submitted>>

\* the search input (line 239)
SetSearch(texts) == \E text \in texts : SetFilters([filters EXCEPT !.search = text])

\* the tag select (lines 248-266): "all" or one of allTags
SelectTag == \E tag \in {"all"} \cup Range(allTags) : SetFilters([filters EXCEPT !.tag = tag])

\* the tag buttons (lines 344-365): "All", and one button per tag of allTags
\* that selects the tag or, when it is selected, "all"
TagButton ==
    /\ allTags # <<>>
    /\ \/ SetFilters([filters EXCEPT !.tag = "all"])
       \/ \E tag \in Range(allTags) :
             SetFilters([filters EXCEPT !.tag = IF @ = tag THEN "all" ELSE tag])

\* the status select (lines 272-305)
SetStatus ==
    \E status \in {"all", "pending", "completed", "overdue"} :
        SetFilters([filters EXCEPT !.status = status])

\* the sort select (lines 311-328), without "title"
SetSortBy == \E sortBy \in {"created", "reminder"} : SetFilters([filters EXCEPT !.sortBy = sortBy])

\* clearFilters (lines 184-191), of the button shown when a filter is active
ClearFilters == hasActiveFilters /\ SetFilters(DefaultFilters)

(***************************************************************************)
(* SpecQuery: the view of a given tree.  The component shows a tree of up  *)
(* to MaxQueryTasks top-level tasks, taken from QueryTasks in any order,   *)
(* and the user sets the filters in any order while time passes.           *)
(***************************************************************************)
Tea == <<"T", "e", "a">>

QueryTask(clock, title, tags, reminder, completed, subtasks) ==
    [newTask([title |-> title, tags |-> tags, reminder |-> reminder, color |-> "bg-card"],
             None, clock)
        EXCEPT !.completed = completed, !.subtasks = subtasks]

QuerySubtask(clock, parent, title, tags, reminder, completed) ==
    [newTask([title |-> title, tags |-> tags, reminder |-> reminder, color |-> "bg-card"],
             Some(toString(parent)), clock)
        EXCEPT !.completed = completed]

\* a reminder that is in the past from the second clock reading on, and one
\* that never is
Early == Some(FirstClock)
Late == Some(MaxClock)

QueryTasks ==
    { QueryTask(10, BuyMilk, <<"errand">>, Early, FALSE, <<>>),
      QueryTask(9, TwoPercentMilk, <<>>, Early, TRUE, <<>>),
      QueryTask(3, Tea, <<"home">>, None, FALSE,
                <<QuerySubtask(4, 3, BuyMilk, <<"errand">>, Early, FALSE)>>),
      QueryTask(5, Tea, <<>>, Late, FALSE,
                <<QuerySubtask(6, 5, TwoPercentMilk, <<>>, Early, TRUE)>>),
      QueryTask(7, BuyMilk, <<>>, None, FALSE, <<>>) }

QueryTrees ==
    {ts \in UNION {[1..n -> QueryTasks] : n \in 0..MaxQueryTasks} :
        \A i, j \in 1..Len(ts) : i # j => ts[i] # ts[j]}

Searches == {<<>>, <<"M", "I", "L", "K">>, <<"t", "e">>}

QueryInit ==
    /\ tasks \in QueryTrees
    /\ pending = <<>>
    /\ effects = <<>>
    /\ storage = Some(Stringify(tasks))
    /\ now = FirstClock
    /\ prev = <<>>
    /\ applied = <<>>
    /\ fault = "none"
    /\ filters = DefaultFilters
    /\ submitted = None

QueryNext ==
    \/ SetSearch(Searches)
    \/ SelectTag
    \/ TagButton
    \/ SetStatus
    \/ SetSortBy
    \/ ClearFilters

SpecQuery == QueryInit /\ [][QueryNext]_vars

(***************************************************************************)
(* SpecView: a session at the screen.  The user submits the add dialog     *)
(* (the top-level one or that of a shown task) and the edit dialog of a    *)
(* shown task with the titles typed, deletes shown tasks, selects tags and *)
(* clears the filters, and reloads the page; each event is handled, and    *)
(* React has rendered and run the effects, before the next.  Date.now()    *)
(* reads the system clock, which may be set back between two events.       *)
(***************************************************************************)
\* the system clock is set back (by its user or by a time synchronisation)
ClockSetBack ==
    /\ Quiet
    /\ now' \in FirstClock..(now - 1)
    /\ UNCHANGED <<tasks, pending, effects, storage, prev, applied, fault, filters, submitted>>

ViewNext ==
    \/ Quiet /\ SubmitAdd(Forms, VisibleIds, MaxViewTasks)
    \/ Quiet /\ SubmitEdit(Forms, VisibleIds)
    \/ Quiet /\ DeleteTask(VisibleIds)
    \/ SelectTag
    \/ TagButton
    \/ ClearFilters
    \/ ClockSetBack
    \/ LoadEffect
    \/ SaveEffect
    \/ Render
    \/ Reload

SpecView == Init /\ [][ViewNext]_vars

(***************************************************************************)
(* Vocabulary of the properties                                            *)
(***************************************************************************)
\* the ids of all tasks of a tree, depth first
IdSeq(ts) == [i \in 1..Len(Flatten(ts)) |-> Flatten(ts)[i].id]

\* no two tasks of the tree, top-level or nested, have the same id
UniqueIds(ts) ==
    \A i, j \in 1..Len(Flatten(ts)) : i # j => Flatten(ts)[i].id # Flatten(ts)[j].id

TopIds(ts) == {ts[i].id : i \in 1..Len(ts)}

SubIds(ts) == UNION {{ts[i].subtasks[j].id : j \in 1..Len(ts[i].subtasks)} : i \in 1..Len(ts)}

\* every subtask of a top-level task has no subtasks of its own
Depth2(ts) ==
    \A i \in 1..Len(ts) : \A j \in 1..Len(ts[i].subtasks) :
        Len(ts[i].subtasks[j].subtasks) = 0

\* a task without its subtasks
Own(t) == [t EXCEPT !.subtasks = <<>>]

\* the tasks of a tree of depth <= 2 in display order, each with the id of the
\* top-level task that holds it (None for a top-level task)
RECURSIVE Entries(_)
Entries(ts) ==
    IF Len(ts) = 0 THEN <<>>
    ELSE <<[task |-> Own(Head(ts)), owner |-> None]>>
         \o [j \in 1..Len(Head(ts).subtasks) |->
                [task |-> Own(Head(ts).subtasks[j]), owner |-> Some(Head(ts).id)]]
         \o Entries(Tail(ts))

\* the most recent render applied exactly one updater, of the given kind
Did(kind) == Len(applied) = 1 /\ applied[1].op = kind

(***************************************************************************)
(* C1: no two tasks of the tree, top-level or nested, have the same id, in *)
(* every state reachable by addTask, updateTask and deleteTask, whatever   *)
(* clock value each addTask reads.                                         *)
(***************************************************************************)
C1_IdsUnique == UniqueIds(tasks)

(***************************************************************************)
(* C2 as stated: for a tree of depth <= 2 with unique ids and an id x in   *)
(* it, deleteTask(x) yields a tree without x in which ALL other tasks are  *)
(* still present in their original relative order.                         *)
(***************************************************************************)
C2_DeleteKeepsAllOthers ==
    (Did("delete") /\ UniqueIds(prev) /\ Depth2(prev)
        /\ applied[1].taskId \in TopIds(prev) \cup SubIds(prev))
    => /\ \A i \in 1..Len(IdSeq(tasks)) : IdSeq(tasks)[i] # applied[1].taskId
       /\ Entries(tasks) = SelectSeq(Entries(prev), LAMBDA e : e.task.id # applied[1].taskId)

(***************************************************************************)
(* C2 amended: for a tree of depth <= 2 with unique ids and an id x in it, *)
(* deleteTask(x) yields a tree without x in which all other tasks except   *)
(* the subtasks of x are still present, unchanged, under the same          *)
(* top-level task and in their original relative order.                    *)
(***************************************************************************)
C2_DeleteKeepsOthers ==
    (Did("delete") /\ UniqueIds(prev) /\ Depth2(prev)
        /\ applied[1].taskId \in TopIds(prev) \cup SubIds(prev))
    => /\ \A i \in 1..Len(IdSeq(tasks)) : IdSeq(tasks)[i] # applied[1].taskId
       /\ Entries(tasks) =
            SelectSeq(Entries(prev),
                      LAMBDA e : e.task.id # applied[1].taskId
                                 /\ e.owner # Some(applied[1].taskId))

\* a top-level task with a subtask was deleted and another task stayed
C2_Witness ==
    /\ Did("delete") /\ UniqueIds(prev)
    /\ \E i \in 1..Len(prev) :
          prev[i].id = applied[1].taskId /\ Len(prev[i].subtasks) > 0
    /\ Len(tasks) > 0

(***************************************************************************)
(* C3: after deleteTask(p) for a top-level p no task whose parentId is p   *)
(* remains anywhere in the tree; when p was the only top-level task (the   *)
(* scenario addTask(P), addTask(C, id of P), deleteTask(id of P)) the tree *)
(* is empty.                                                               *)
(***************************************************************************)
C3_DeleteRemovesSubtasks ==
    (Did("delete") /\ applied[1].taskId \in TopIds(prev))
    => /\ \A i \in 1..Len(Flatten(tasks)) :
             Flatten(tasks)[i].parentId # Some(applied[1].taskId)
       /\ (\A i \in 1..Len(prev) : prev[i].id = applied[1].taskId) => Len(tasks) = 0

\* the scenario: the only top-level task, which had a subtask, was deleted
C3_Witness ==
    /\ Did("delete")
    /\ Len(prev) = 1 /\ prev[1].id = applied[1].taskId
    /\ Len(prev[1].subtasks) = 1
    /\ prev[1].subtasks[1].parentId = Some(prev[1].id)
    /\ Len(tasks) = 0

(***************************************************************************)
(* C4: for a tree with unique ids and an id x in it, updateTask(x,         *)
(* {completed: true}) yields the same tree except that the task with id x  *)
(* has completed = true: its other fields and its subtasks, every other    *)
(* task and every order are unchanged.                                     *)
(***************************************************************************)
C4_CompleteChangesOnlyCompleted ==
    (Did("update") /\ applied[1].updates = [completed |-> TRUE] /\ UniqueIds(prev)
        /\ applied[1].taskId \in TopIds(prev) \cup SubIds(prev))
    => LET Done(t) == IF t.id = applied[1].taskId THEN [t EXCEPT !.completed = TRUE] ELSE t
       IN  /\ Len(tasks) = Len(prev)
           /\ \A i \in 1..Len(prev) :
                /\ Own(tasks[i]) = Own(Done(prev[i]))
                /\ Len(tasks[i].subtasks) = Len(prev[i].subtasks)
                /\ \A j \in 1..Len(prev[i].subtasks) :
                      tasks[i].subtasks[j] = Done(prev[i].subtasks[j])

\* a subtask with a reminder, not yet completed, was completed, next to
\* other tasks
C4_Witness ==
    /\ Did("update") /\ applied[1].updates = [completed |-> TRUE] /\ UniqueIds(prev)
    /\ Len(Flatten(prev)) >= 3
    /\ \E i \in 1..Len(prev) : \E j \in 1..Len(prev[i].subtasks) :
          /\ prev[i].subtasks[j].id = applied[1].taskId
          /\ ~prev[i].subtasks[j].completed
          /\ prev[i].subtasks[j].reminder # None
          /\ tasks[i].subtasks[j].completed

(***************************************************************************)
(* C5: addTask without parentId appends exactly one new task (completed =  *)
(* false, no subtasks, no parentId) at the end of the top-level sequence   *)
(* and leaves the prior top-level tasks unchanged; addTask with the id of  *)
(* a top-level task as parentId appends exactly one new task at the end of *)
(* that task's subtasks and leaves every other top-level task unchanged.   *)
(***************************************************************************)
C5_AddAppendsExactlyOne ==
    Did("add") =>
        /\ applied[1].parentId = None =>
              /\ tasks = Append(prev, applied[1].task)
              /\ ~applied[1].task.completed
              /\ Len(applied[1].task.subtasks) = 0
              /\ applied[1].task.parentId = None
        /\ (applied[1].parentId # None /\ applied[1].parentId[1] \in TopIds(prev)) =>
              \E i \in 1..Len(prev) :
                  /\ prev[i].id = applied[1].parentId[1]
                  /\ tasks = [prev EXCEPT ![i].subtasks = Append(@, applied[1].task)]

(***************************************************************************)
(* C6: addTask with a parentId that is the id of no top-level task (the id *)
(* of a subtask included) leaves the tree unchanged.                       *)
(***************************************************************************)
C6_AddUnderMissingParentIsNoOp ==
    (Did("add") /\ applied[1].parentId # None /\ applied[1].parentId[1] \notin TopIds(prev))
    => tasks = prev

\* addTask was called with the id of an existing subtask as parentId
C6_Witness ==
    /\ Did("add") /\ applied[1].parentId # None
    /\ applied[1].parentId[1] \in SubIds(prev)
    /\ applied[1].parentId[1] \notin TopIds(prev)

(***************************************************************************)
(* C7: in every reachable state every subtask of a top-level task has an   *)
(* empty subtasks sequence (tree depth <= 2).                              *)
(***************************************************************************)
C7_DepthAtMostTwo == Depth2(tasks)

\* the tree holds a subtask, and addTask was called with a subtask's id while
\* there was room for one more task
C7_Witness ==
    /\ Did("add") /\ applied[1].parentId # None
    /\ applied[1].parentId[1] \in SubIds(prev)
    /\ Len(Flatten(prev)) < MaxTasks
    /\ SubIds(tasks) # {}

(***************************************************************************)
(* C8: in every reachable state every subtask's parentId is the id of the  *)
(* top-level task whose subtasks hold it, and a top-level task has no      *)
(* parentId.                                                               *)
(***************************************************************************)
C8_ParentIdIsOwner ==
    \A i \in 1..Len(tasks) :
        /\ tasks[i].parentId = None
        /\ \A j \in 1..Len(tasks[i].subtasks) :
              tasks[i].subtasks[j].parentId = Some(tasks[i].id)

\* the edit dialog's update was applied to a subtask
C8_Witness ==
    /\ Did("update") /\ "title" \in DOMAIN applied[1].updates
    /\ applied[1].taskId \in SubIds(prev)
    /\ SubIds(tasks) # {}

(***************************************************************************)
(* C9: saving a tree (JSON text, reminders as date-time texts) and loading *)
(* it back yields the same tree, field for field: order, nesting, id,      *)
(* title, completed, color, tags, parentId and reminder, an absent         *)
(* reminder loading as absent.                                             *)
(***************************************************************************)
C9_RoundTrip == tasksWithDates(Stringify(tasks)) = tasks

\* the tree was loaded from the stored document; it holds a task without
\* reminder and parentId, and a completed subtask with a reminder
C9_Witness ==
    /\ Did("set")
    /\ \E i \in 1..Len(tasks) :
          /\ tasks[i].reminder = None
          /\ \E j \in 1..Len(tasks[i].subtasks) :
                /\ tasks[i].subtasks[j].reminder # None
                /\ tasks[i].subtasks[j].completed

(***************************************************************************)
(* C10: mutations queued before one render are each applied to the result  *)
(* of the previous one, in invocation order, none being lost: top-level    *)
(* adds all arrive, in order; an add after a delete of its id stays, an    *)
(* add before a delete of its id goes.  And once no updater and no effect  *)
(* is pending, the stored document is the serialization of the tree.       *)
(***************************************************************************)
TopAdd(u) == u.op = "add" /\ u.parentId = None

InvalidReminder(t) == t.reminder # None /\ t.reminder[1] = NaN

C11_MalformedStartsEmpty ==
    /\ fault # "load effect"
    /\ \A i \in 1..Len(Flatten(tasks)) : ~InvalidReminder(Flatten(tasks)[i])

(***************************************************************************)
(* C12: loading a document in which a task record, top-level or nested,    *)
(* has no subtasks key yields a tree in which that task has an empty       *)
(* subtasks sequence, and no later evaluation over the loaded tree         *)
(* (updateTask, deleteTask, getAllTags, the filter) raises a fault.        *)
(***************************************************************************)
RECURSIVE AllHaveSubtasks(_)
AllHaveSubtasks(ts) ==
    \A i \in 1..Len(ts) : "subtasks" \in DOMAIN ts[i] /\ AllHaveSubtasks(ts[i].subtasks)

C12_MissingSubtasksLoadEmpty ==
    /\ \A i \in 1..Len(pending) : pending[i].op = "set" => AllHaveSubtasks(pending[i].value)
    /\ fault # "render"

(***************************************************************************)
(* C13: a submit of the add dialog or of the edit dialog with a title that *)
(* is empty or only white space is rejected before any mutation            *)
(* (addTask/updateTask is not invoked, the tree and the stored document    *)
(* are unchanged) and the caller is notified of the rejection; so every    *)
(* task of every reachable tree has a title that is not empty and is       *)
(* trimmed.                                                                *)
(***************************************************************************)
TitlesTrimmed ==
    \A i \in 1..Len(Flatten(tasks)) :
        Flatten(tasks)[i].title # <<>> /\ trim(Flatten(tasks)[i].title) = Flatten(tasks)[i].title

\* a dialog has just been submitted with a blank title
BlankSubmit ==
    submitted' # submitted /\ submitted' # None /\ trim(submitted'[1].title) = <<>>

\* the submit told its caller something: handleSubmit returned a value
Notified == submitted'[1].returned # None

C13_BlankTitleRejectedAndNotified ==
    [][ /\ TitlesTrimmed'
        /\ BlankSubmit =>
              /\ ~submitted'[1].invoked
              /\ tasks' = tasks /\ pending' = pending /\ storage' = storage
              /\ Notified ]_vars

\* the same without the notification
C13_BlankTitleRejected ==
    [][ /\ TitlesTrimmed'
        /\ BlankSubmit =>
              /\ ~submitted'[1].invoked
              /\ tasks' = tasks /\ pending' = pending /\ storage' = storage ]_vars

(***************************************************************************)
(* C14: updateTask(x, updates) and deleteTask(x) with an id x that no task *)
(* of the tree has are silent no-ops: no fault is raised, and the tree     *)
(* after the call equals the tree before it in every task, field and       *)
(* order.                                                                  *)
(***************************************************************************)
C14_AbsentIdIsNoOp ==
    (Len(applied) = 1 /\ applied[1].op \in {"update", "delete"}
        /\ applied[1].taskId \notin Range(IdSeq(prev)))
    => (tasks = prev /\ fault = "none")

\* deleteTask was called with an id that no task has, on a tree with a subtask
C14_Witness ==
    /\ Did("delete") /\ applied[1].taskId \notin Range(IdSeq(prev))
    /\ SubIds(prev) # {}
    /\ tasks = prev

(***************************************************************************)
(* C15: for every tree, FilterState and clock value the filter returns     *)
(* exactly the top-level tasks that pass all three criteria: search (the   *)
(* non-empty search text occurs, case aside, in the title of the task or   *)
(* of a subtask), tag ("all", or a tag of the task or of a subtask) and    *)
(* status (completed: the task or a subtask is completed; pending: the     *)
(* task is not completed and neither it nor a subtask is overdue; overdue: *)
(* the task or a subtask is overdue; all: always), where overdue means     *)
(* reminder set, reminder < now and not completed.                         *)
(***************************************************************************)
\* the same character, or the same letter in upper and in lower case
SameLetter(c, d) ==
    c = d \/ \E k \in 1..Len(UpperCase) : {c, d} = {UpperCase[k], LowerCase[k]}

OccursIn(text, s) ==
    \E k \in 0..(Len(s) - Len(text)) : \A i \in 1..Len(text) : SameLetter(s[k + i], text[i])

Overdue(t) == t.reminder # None /\ t.reminder[1] < now /\ ~t.completed

\* a top-level task and its subtasks
Family(task) == {task} \cup Range(task.subtasks)

PassesSearch(task) ==
    filters.search = <<>> \/ \E t \in Family(task) : OccursIn(filters.search, t.title)

PassesTag(task) ==
    filters.tag = "all" \/ \E t \in Family(task) : filters.tag \in Range(t.tags)

PassesStatus(task) ==
    CASE filters.status = "completed" -> \E t \in Family(task) : t.completed
      [] filters.status = "pending"   -> ~task.completed /\ \A t \in Family(task) : ~Overdue(t)
      [] filters.status = "overdue"   -> \E t \in Family(task) : Overdue(t)
      [] OTHER                        -> TRUE

Passing ==
    SelectSeq(tasks, LAMBDA task : PassesSearch(task) /\ PassesTag(task) /\ PassesStatus(task))

C15_FilterReturnsExactlyPassing ==
    /\ Len(filteredTasks) = Len(Passing)
    /\ Range(filteredTasks) = Range(Passing)

\* with a search text and the status "overdue": a task that is not overdue
\* itself is shown for its overdue subtask, and a completed task whose
\* reminder is in the past is not shown
C15_Witness ==
    /\ filters.status = "overdue" /\ filters.search # <<>>
    /\ \E i \in 1..Len(filteredTasks) :
          /\ ~Overdue(filteredTasks[i])
          /\ \E t \in Range(filteredTasks[i].subtasks) : Overdue(t)
    /\ \E i \in 1..Len(tasks) :
          /\ tasks[i].completed /\ tasks[i].reminder # None /\ tasks[i].reminder[1] < now
          /\ OccursIn(filters.search, tasks[i].title)
          /\ tasks[i] \notin Range(filteredTasks)

(***************************************************************************)
(* C17: sorting by "reminder" returns a permutation of its input in which  *)
(* every task without a reminder comes after every task with one, the      *)
(* tasks with reminders are in ascending order of their timestamps, and    *)
(* tasks that compare equal (equal timestamps, or both without reminder)   *)
(* keep their relative input order.                                        *)
(***************************************************************************)
\* the input of the sort: the tasks the filter kept, in the order of `tasks`
SortInput == SelectSeq(tasks, LAMBDA task : Keeps(task, filters, now))

PlaceIn(seq, t) == CHOOSE i \in 1..Len(seq) : seq[i] = t

C17_ReminderSortStable ==
    filters.sortBy = "reminder" =>
        /\ Len(filteredTasks) = Len(SortInput)
        /\ Range(filteredTasks) = Range(SortInput)
        /\ \A i, j \in 1..Len(filteredTasks) :
              i < j =>
                /\ filteredTasks[i].reminder = None => filteredTasks[j].reminder = None
                /\ (filteredTasks[i].reminder # None /\ filteredTasks[j].reminder # None)
                      => filteredTasks[i].reminder[1] <= filteredTasks[j].reminder[1]
                /\ filteredTasks[i].reminder = filteredTasks[j].reminder
                      => PlaceIn(SortInput, filteredTasks[i]) < PlaceIn(SortInput, filteredTasks[j])

\* three tasks are sorted: the first has no reminder, the other two have the
\* same timestamp; they come out second, third, first
C17_Witness ==
    /\ filters.sortBy = "reminder"
    /\ Len(SortInput) = 3
    /\ SortInput[1].reminder = None
    /\ SortInput[2].reminder # None /\ SortInput[2].reminder = SortInput[3].reminder
    /\ filteredTasks = <<SortInput[2], SortInput[3], SortInput[1]>>

(***************************************************************************)
(* C18: during startup with a non-empty stored document and no user        *)
(* mutation the stored document never differs from the one stored at the   *)
(* start: the save effect, which also runs on mount with the initial empty *)
(* tree, does not write the empty tree to storage before the loaded tree   *)
(* has been applied.                                                       *)
(***************************************************************************)
\* the load effect has handed the loaded tree to setTasks, and React has not
\* yet rendered it
LoadedTreeWaits == Len(pending) > 0 /\ pending[1].op = "set" /\ pending[1].value # <<>>

C18_StartupKeepsStoredDocument ==
    LoadedTreeWaits => storage = Some(Stringify(pending[1].value))

(***************************************************************************)
(* C16: for every tree reachable by add, update and delete calls, also     *)
(* after it was saved and loaded again, sorting the top-level tasks by     *)
(* "created" returns them in the order in which they were added (the order *)
(* of `tasks`: addTask appends, deleteTask and the reload keep the order), *)
(* tasks added at the same clock reading included.                         *)
(***************************************************************************)
C16_CreatedSortIsInsertionOrder == sort(tasks, "created") = tasks

(***************************************************************************)
(* C19: in every reachable state, after any interleaving of tag            *)
(* selections, clearFilters, addTask, updateTask (tag edits included) and  *)
(* deleteTask, filters.tag is "all" or a tag that getAllTags() returns; it *)
(* never stays at a tag that no task of the tree has.                      *)
(***************************************************************************)
C19_SelectedTagExists == filters.tag = "all" \/ filters.tag \in Range(allTags)

====
